---- MODULE Spec2Model ----
(***************************************************************************)
(* AlgoNim escrow (contracts/escrow.py): the PyTeal approval program as a  *)
(* state machine.  One application call is one step.  The AVM evaluates a  *)
(* call to completion; a failed Assert, an arithmetic panic or a failed    *)
(* inner transaction rejects the call and leaves the ledger untouched.     *)
(*                                                                         *)
(* Left out: DeleteApplication / UpdateApplication (creator-only teardown  *)
(* that removes or replaces the program itself), the clear-state program   *)
(* (the application keeps no local state), transaction fees and the        *)
(* ledger's minimum-balance requirement.                                   *)
(***************************************************************************)
EXTENDS Integers, Sequences, FiniteSets

\* ---------------------------------------------------------------- bounds
MaxDays == 4
MaxInner == 2
MaxBalance == 3000

\* ------------------------------------------------------ program constants
STATUS_WAITING == 0
STATUS_ACTIVE == 1
STATUS_COMPLETE == 2
JOIN_TIMEOUT == 3600
ABANDON_TIMEOUT == 259200
FEE_RESERVE == 1000
GAME_SERVER == "SERVER"

\* ----------------------------------------------------- environment values
ZeroAddress == "ZERO"
AppAddress == "ESCROW"
Senders == {"A", "B", GAME_SERVER}
Creators == {"A"}
NoArg == "-"

\* application_args[0] of the creating call, as big-endian byte strings
WagerArgs == { <<>>, <<3, 232>>, <<5, 220>>,
               <<0, 0, 0, 0, 0, 0, 0, 5, 220>> }
GameIds == {"g1"}
StartTime == 100
\* the clock is followed for MaxDays days of 86400 seconds
Horizon == StartTime + MaxDays * 86400

RECURSIVE BtoiAcc(_, _)
BtoiAcc(bytes, acc) ==
    IF bytes = <<>> THEN acc
    ELSE BtoiAcc(Tail(bytes), acc * 256 + Head(bytes))

\* Btoi panics on more than 8 bytes: -1 stands for the panic
Btoi(bytes) == IF Len(bytes) > 8 THEN -1 ELSE BtoiAcc(bytes, 0)

NoTxn == [type_enum |-> "none", receiver |-> NoArg, amount |-> 0]

\* the transaction at group index 1, chosen around the stored wager
Gtxn1Choices(w) ==
    {NoTxn}
    \cup {[type_enum |-> "pay", receiver |-> "B", amount |-> w]}
    \cup {[type_enum |-> "pay", receiver |-> AppAddress, amount |-> a] :
             a \in {x \in {w - 1, w, w + 1} : x >= 0}}

DepositChoices(w) ==
    {NoTxn}
    \cup {[type_enum |-> "pay", receiver |-> AppAddress, amount |-> a] :
             a \in {w, w + 1}}

VARIABLES appExists, creator, global, now, balance, inner, last,
          declarer, received

vars == <<appExists, creator, global, now, balance, inner, last,
          declarer, received>>

EmptyGlobal ==
    [player1 |-> ZeroAddress, player2 |-> ZeroAddress, wager |-> 0,
     game_id |-> "", winner |-> ZeroAddress, status |-> STATUS_WAITING,
     created_at |-> 0, last_move |-> 0]

NoCall == [op |-> "none", sender |-> NoArg, arg |-> NoArg, gtxn1 |-> NoTxn,
           approved |-> FALSE, move_before |-> 0]

Init ==
    /\ appExists = FALSE
    /\ creator = ZeroAddress
    /\ global = EmptyGlobal
    /\ now = StartTime
    /\ balance = 0
    /\ inner = <<>>
    /\ last = NoCall
    /\ declarer = ZeroAddress
    /\ received = [join |-> 0, deposit |-> 0]

\* ------------------------------------------------------------- handlers
\* A handler evaluates to the outcome of the call: approved or not, the
\* global state it leaves and the inner payments it submitted.
Reject == [approved |-> FALSE, global |-> global, submit |-> <<>>]
Approve(g, s) == [approved |-> TRUE, global |-> g, submit |-> s]

Payment(op, receiver, amount) ==
    [op |-> op, receiver |-> receiver, amount |-> amount]

\* uint64 subtraction panics below zero; the inner payment fails when the
\* application account cannot cover it
CanSubmit(amount) == amount >= 0 /\ amount <= balance

on_create(sender, wagerArg, gameId) ==
    IF Btoi(wagerArg) >= 0
    THEN Approve([player1 |-> sender, player2 |-> ZeroAddress,
                  wager |-> Btoi(wagerArg), game_id |-> gameId,
                  winner |-> ZeroAddress, status |-> STATUS_WAITING,
                  created_at |-> now, last_move |-> now], <<>>)
    ELSE Reject

\* variant: the amount comparison is >= instead of ==
PaysWager_AtLeast(gtxn1) ==
    /\ gtxn1.type_enum = "pay"
    /\ gtxn1.receiver = AppAddress
    /\ gtxn1.amount >= global.wager

PaysWager(gtxn1) ==
    /\ gtxn1.type_enum = "pay"
    /\ gtxn1.receiver = AppAddress
    /\ gtxn1.amount = global.wager

on_join(sender, gtxn1) ==
    IF /\ global.status = STATUS_WAITING
       /\ sender # global.player1
       /\ global.player2 = ZeroAddress
       /\ PaysWager(gtxn1)
    THEN Approve([global EXCEPT !.player2 = sender,
                                !.status = STATUS_ACTIVE,
                                !.last_move = now], <<>>)
    ELSE Reject

\* variant: the sender is not checked
on_deposit_AnySender(sender, gtxn1) ==
    IF PaysWager(gtxn1)
    THEN Approve(global, <<>>)
    ELSE Reject

\* variant: an approved deposit refreshes last_move
on_deposit_TouchesMove(sender, gtxn1) ==
    IF /\ sender = global.player1
       /\ PaysWager(gtxn1)
    THEN Approve([global EXCEPT !.last_move = now], <<>>)
    ELSE Reject

on_deposit(sender, gtxn1) ==
    IF /\ sender = global.player1
       /\ PaysWager(gtxn1)
    THEN Approve(global, <<>>)
    ELSE Reject

\* variant: the winner argument is not checked against the players
on_declare_winner_AnyWinner(sender, arg) ==
    IF /\ (sender = GAME_SERVER \/ sender = creator)
       /\ global.status = STATUS_ACTIVE
    THEN Approve([global EXCEPT !.winner = arg,
                                !.status = STATUS_COMPLETE], <<>>)
    ELSE Reject

\* variant: winner is written but status is left as it was
on_declare_winner_KeepStatus(sender, arg) ==
    IF /\ (sender = GAME_SERVER \/ sender = creator)
       /\ global.status = STATUS_ACTIVE
       /\ (arg = global.player1 \/ arg = global.player2)
    THEN Approve([global EXCEPT !.winner = arg], <<>>)
    ELSE Reject

\* variant: the status is not checked
on_declare_winner_AnyStatus(sender, arg) ==
    IF /\ (sender = GAME_SERVER \/ sender = creator)
       /\ (arg = global.player1 \/ arg = global.player2)
    THEN Approve([global EXCEPT !.winner = arg,
                                !.status = STATUS_COMPLETE], <<>>)
    ELSE Reject

on_declare_winner(sender, arg) ==
    IF /\ (sender = GAME_SERVER \/ sender = creator)
       /\ global.status = STATUS_ACTIVE
       /\ (arg = global.player1 \/ arg = global.player2)
    THEN Approve([global EXCEPT !.winner = arg,
                                !.status = STATUS_COMPLETE], <<>>)
    ELSE Reject

on_claim(sender) ==
    IF /\ global.status = STATUS_COMPLETE
       /\ sender = global.winner
       /\ CanSubmit(global.wager * 2 - FEE_RESERVE)
    THEN Approve(global,
                 <<Payment("claim", sender, global.wager * 2 - FEE_RESERVE)>>)
    ELSE Reject

\* variant: the join timeout comparison is >= instead of >
on_cancel_AtDeadline(sender) ==
    IF /\ sender = global.player1
       /\ global.status = STATUS_WAITING
       /\ now >= global.created_at + JOIN_TIMEOUT
       /\ CanSubmit(global.wager - FEE_RESERVE)
    THEN Approve(global,
                 <<Payment("cancel", global.player1,
                           global.wager - FEE_RESERVE)>>)
    ELSE Reject

\* variant: the refund is computed as the pot
on_cancel_PaysPot(sender) ==
    IF /\ sender = global.player1
       /\ global.status = STATUS_WAITING
       /\ now > global.created_at + JOIN_TIMEOUT
       /\ CanSubmit(global.wager * 2 - FEE_RESERVE)
    THEN Approve(global,
                 <<Payment("cancel", global.player1,
                           global.wager * 2 - FEE_RESERVE)>>)
    ELSE Reject

on_cancel(sender) ==
    IF /\ sender = global.player1
       /\ global.status = STATUS_WAITING
       /\ now > global.created_at + JOIN_TIMEOUT
       /\ CanSubmit(global.wager - FEE_RESERVE)
    THEN Approve(global,
                 <<Payment("cancel", global.player1,
                           global.wager - FEE_RESERVE)>>)
    ELSE Reject

\* variant: the abandon timeout is not checked
on_timeout_claim_NoTimeout(sender) ==
    IF /\ global.status = STATUS_ACTIVE
       /\ (sender = global.player1 \/ sender = global.player2)
       /\ CanSubmit(global.wager * 2 - FEE_RESERVE)
    THEN Approve([global EXCEPT !.winner = sender,
                                !.status = STATUS_COMPLETE],
                 <<Payment("timeout_claim", sender,
                           global.wager * 2 - FEE_RESERVE)>>)
    ELSE Reject

\* variant: the status is not checked
on_timeout_claim_AnyStatus(sender) ==
    IF /\ (sender = global.player1 \/ sender = global.player2)
       /\ now > global.last_move + ABANDON_TIMEOUT
       /\ CanSubmit(global.wager * 2 - FEE_RESERVE)
    THEN Approve([global EXCEPT !.winner = sender,
                                !.status = STATUS_COMPLETE],
                 <<Payment("timeout_claim", sender,
                           global.wager * 2 - FEE_RESERVE)>>)
    ELSE Reject

\* variant: the sender is not checked against the players
on_timeout_claim_AnySender(sender) ==
    IF /\ global.status = STATUS_ACTIVE
       /\ now > global.last_move + ABANDON_TIMEOUT
       /\ CanSubmit(global.wager * 2 - FEE_RESERVE)
    THEN Approve([global EXCEPT !.winner = sender,
                                !.status = STATUS_COMPLETE],
                 <<Payment("timeout_claim", sender,
                           global.wager * 2 - FEE_RESERVE)>>)
    ELSE Reject

on_timeout_claim(sender) ==
    IF /\ global.status = STATUS_ACTIVE
       /\ (sender = global.player1 \/ sender = global.player2)
       /\ now > global.last_move + ABANDON_TIMEOUT
       /\ CanSubmit(global.wager * 2 - FEE_RESERVE)
    THEN Approve([global EXCEPT !.winner = sender,
                                !.status = STATUS_COMPLETE],
                 <<Payment("timeout_claim", sender,
                           global.wager * 2 - FEE_RESERVE)>>)
    ELSE Reject

\* variant: the call is approved without writing last_move
on_update_move_Stale(sender) ==
    IF /\ (sender = GAME_SERVER \/ sender = creator)
       /\ global.status = STATUS_ACTIVE
    THEN Approve(global, <<>>)
    ELSE Reject

on_update_move(sender) ==
    IF /\ (sender = GAME_SERVER \/ sender = creator)
       /\ global.status = STATUS_ACTIVE
    THEN Approve([global EXCEPT !.last_move = now], <<>>)
    ELSE Reject

\* the Cond of the approval program for calls to the existing application
approval_program(op, sender, arg, gtxn1) ==
    CASE op = "join" -> on_join(sender, gtxn1)
      [] op = "deposit" -> on_deposit(sender, gtxn1)
      [] op = "declare_winner" -> on_declare_winner(sender, arg)
      [] op = "claim" -> on_claim(sender)
      [] op = "cancel" -> on_cancel(sender)
      [] op = "timeout_claim" -> on_timeout_claim(sender)
      [] op = "update_move" -> on_update_move(sender)
      [] OTHER -> Reject

\* ----------------------------------------------------------------- ledger
SumAmounts(s) == IF s = <<>> THEN 0 ELSE s[1].amount

\* value the group moves into the application account when it is accepted
Inbound(gtxn1) ==
    IF gtxn1.type_enum = "pay" /\ gtxn1.receiver = AppAddress
    THEN gtxn1.amount ELSE 0

Commit(op, sender, arg, gtxn1, r) ==
    /\ global' = r.global
    /\ inner' = inner \o r.submit
    /\ balance' = IF r.approved
                  THEN balance - SumAmounts(r.submit) + Inbound(gtxn1)
                  ELSE balance
    /\ last' = [op |-> op, sender |-> sender, arg |-> arg, gtxn1 |-> gtxn1,
                approved |-> r.approved, move_before |-> global.last_move]
    /\ declarer' = IF r.approved /\ op = "declare_winner" THEN sender
                   ELSE declarer
    /\ received' = IF r.approved /\ op \in {"join", "deposit"}
                   THEN [received EXCEPT ![op] = @ + Inbound(gtxn1)]
                   ELSE received
    /\ Len(inner') <= MaxInner
    /\ balance' <= MaxBalance

\* ---------------------------------------------------------------- actions
Create ==
    /\ ~appExists
    /\ \E sender \in Creators, wagerArg \in WagerArgs, gameId \in GameIds :
         LET r == on_create(sender, wagerArg, gameId) IN
           /\ appExists' = r.approved
           /\ creator' = IF r.approved THEN sender ELSE creator
           /\ Commit("create", sender, NoArg, NoTxn, r)
    /\ UNCHANGED now

\* a call to the existing application (application_id # 0)
Call(op, sender, arg, gtxn1) ==
    /\ Commit(op, sender, arg, gtxn1, approval_program(op, sender, arg, gtxn1))
    /\ UNCHANGED <<appExists, creator, now>>

Join ==
    /\ appExists
    /\ \E sender \in Senders, gtxn1 \in Gtxn1Choices(global.wager) :
         Call("join", sender, NoArg, gtxn1)

Deposit ==
    /\ appExists
    /\ \E sender \in Senders, gtxn1 \in DepositChoices(global.wager) :
         Call("deposit", sender, NoArg, gtxn1)

DeclareWinner ==
    /\ appExists
    /\ \E sender \in Senders, arg \in Senders \cup {ZeroAddress} :
         Call("declare_winner", sender, arg, NoTxn)

Claim ==
    /\ appExists
    /\ \E sender \in Senders : Call("claim", sender, NoArg, NoTxn)

Cancel ==
    /\ appExists
    /\ \E sender \in Senders : Call("cancel", sender, NoArg, NoTxn)

TimeoutClaim ==
    /\ appExists
    /\ \E sender \in Senders : Call("timeout_claim", sender, NoArg, NoTxn)

UpdateMove ==
    /\ appExists
    /\ \E sender \in Senders : Call("update_move", sender, NoArg, NoTxn)

\* Global.latest_timestamp() moves forward between calls.  The program only
\* compares it with created_at + JOIN_TIMEOUT and last_move + ABANDON_TIMEOUT,
\* so the clock is advanced to the instants on and just past either deadline.
Instants ==
    {global.created_at + JOIN_TIMEOUT, global.created_at + JOIN_TIMEOUT + 1,
     global.last_move + ABANDON_TIMEOUT, global.last_move + ABANDON_TIMEOUT + 1}

Tick ==
    /\ appExists
    /\ now' \in {t \in Instants : t > now /\ t <= Horizon}
    /\ UNCHANGED <<appExists, creator, global, balance, inner, last,
                   declarer, received>>

Next ==
    \/ Create
    \/ Join
    \/ Deposit
    \/ DeclareWinner
    \/ Claim
    \/ Cancel
    \/ TimeoutClaim
    \/ UpdateMove
    \/ Tick

Spec == Init /\ [][Next]_vars

TypeOK ==
    /\ appExists \in BOOLEAN
    /\ global.status \in {STATUS_WAITING, STATUS_ACTIVE, STATUS_COMPLETE}
    /\ balance >= 0
    /\ global.wager >= 0

\* ================================================================ claims
Players == {global.player1, global.player2}

\* this step is a call of op; last' describes it, the unprimed variables are
\* the state the call ran in
CallStep(op) == now' = now /\ last'.op = op
AcceptedStep(op) == CallStep(op) /\ last'.approved
RecordUnchanged == global' = global /\ inner' = inner /\ balance' = balance

PaidBy(op) == {i \in DOMAIN inner : inner[i].op = op}

\* C1: on a Complete record the winner's claim is accepted at most once, so
\* no run holds two accepted claims (two claim payments) on the record.
C1_ClaimAtMostOnce == Cardinality(PaidBy("claim")) <= 1

\* C2: claim, timeout_claim and cancel together emit at most one outbound
\* transfer over the life of the record.
C2_AtMostOnePayout == Len(inner) <= 1

\* C3: whenever the pot was paid out through claim, the winner was declared by
\* the designated reporter and by no one else (player1, the creator, cannot
\* make themselves winner); the only other way to the pot is an accepted
\* timeout_claim.
C3_NoUnilateralSeizure ==
    PaidBy("claim") # {} => declarer = GAME_SERVER

\* the preconditions of each operation
Precondition(c) ==
    CASE c.op = "join" ->
           /\ global.status = STATUS_WAITING
           /\ c.sender # global.player1
           /\ global.player2 = ZeroAddress
           /\ c.gtxn1.type_enum = "pay"
           /\ c.gtxn1.receiver = AppAddress
           /\ c.gtxn1.amount = global.wager
      [] c.op = "deposit" ->
           /\ c.sender = global.player1
           /\ c.gtxn1.type_enum = "pay"
           /\ c.gtxn1.receiver = AppAddress
           /\ c.gtxn1.amount = global.wager
      [] c.op = "declare_winner" ->
           /\ c.sender \in {GAME_SERVER, creator}
           /\ global.status = STATUS_ACTIVE
           /\ c.arg \in Players
      [] c.op = "claim" ->
           /\ global.status = STATUS_COMPLETE
           /\ c.sender = global.winner
      [] c.op = "cancel" ->
           /\ c.sender = global.player1
           /\ global.status = STATUS_WAITING
           /\ now > global.created_at + JOIN_TIMEOUT
      [] c.op = "timeout_claim" ->
           /\ global.status = STATUS_ACTIVE
           /\ c.sender \in Players
           /\ now > global.last_move + ABANDON_TIMEOUT
      [] c.op = "update_move" ->
           /\ c.sender \in {GAME_SERVER, creator}
           /\ global.status = STATUS_ACTIVE
      [] OTHER -> TRUE

\* C4: a call of join, deposit, declare_winner, claim, cancel, timeout_claim
\* or update_move one of whose preconditions fails is rejected, and a rejected
\* call changes no field of the record and emits no outbound transfer.
C4_AllOrNothing ==
    [][now' = now =>
         /\ (~Precondition(last') => ~last'.approved)
         /\ (~last'.approved => RecordUnchanged)]_vars

C4_Witness ==
    /\ last.op = "timeout_claim"
    /\ ~last.approved
    /\ global.status = STATUS_ACTIVE
    /\ last.sender \in Players
    /\ now = global.last_move + ABANDON_TIMEOUT

\* C5: on a Waiting record with wager > 0, a join by a caller other than
\* player1 paired with a payment of exactly wager to the escrow is accepted and
\* gives player2 = caller, status = Active, lastMoveAt = now; with any other
\* paired transaction it is rejected, status stays Waiting and player2 none.
C5_JoinExactWager ==
    [][(/\ CallStep("join")
        /\ global.status = STATUS_WAITING
        /\ global.wager > 0
        /\ last'.sender # global.player1) =>
         IF /\ last'.gtxn1.type_enum = "pay"
            /\ last'.gtxn1.receiver = AppAddress
            /\ last'.gtxn1.amount = global.wager
         THEN /\ last'.approved
              /\ global'.player2 = last'.sender
              /\ global'.status = STATUS_ACTIVE
              /\ global'.last_move = now
         ELSE /\ ~last'.approved
              /\ global'.status = STATUS_WAITING
              /\ global'.player2 = ZeroAddress]_vars

C5_Witness ==
    /\ last.op = "join"
    /\ last.approved
    /\ global.wager > 0
    /\ last.gtxn1.amount = global.wager
    /\ global.player2 = last.sender
    /\ global.status = STATUS_ACTIVE
    /\ global.last_move = now

\* C6: declare_winner(p) is rejected when status is not Active and when p is
\* neither player1 nor player2; an accepted one leaves status = Complete and
\* winner = p and changes nothing else.
C6_DeclareWinner ==
    [][CallStep("declare_winner") =>
         /\ (global.status # STATUS_ACTIVE \/ last'.arg \notin Players)
               => (~last'.approved /\ RecordUnchanged)
         /\ last'.approved =>
               /\ global' = [global EXCEPT !.winner = last'.arg,
                                           !.status = STATUS_COMPLETE]
               /\ inner' = inner
               /\ balance' = balance]_vars

C6_Witness ==
    /\ last.op = "declare_winner"
    /\ last.approved
    /\ global.status = STATUS_COMPLETE
    /\ global.winner = last.arg
    /\ last.arg = global.player2

\* C7: an accepted cancel was called by player1 on a Waiting record at a time
\* strictly after createdAt + 3600; at or before the deadline, and in Active
\* or Complete, cancel is rejected.
C7_CancelGuard ==
    [][AcceptedStep("cancel") =>
         /\ last'.sender = global.player1
         /\ global.status = STATUS_WAITING
         /\ now > global.created_at + JOIN_TIMEOUT]_vars

C7_Witness ==
    /\ last.op = "cancel"
    /\ last.approved
    /\ now = global.created_at + JOIN_TIMEOUT + 1
    /\ PaidBy("cancel") # {}

\* C8: once a cancel has been accepted the record is terminal: no join is
\* accepted afterwards and the record never becomes Active.
C8_CancelIsTerminal ==
    PaidBy("cancel") # {} =>
        /\ global.status = STATUS_WAITING
        /\ global.player2 = ZeroAddress

\* C9: an accepted timeout_claim was called by player1 or player2 on an
\* Active record at a time strictly after lastMoveAt + 259200, and an accepted
\* update_move at time t sets lastMoveAt = t (so that no timeout_claim is
\* accepted up to t + 259200, whatever the previous lastMoveAt was).
C9_TimeoutGuard ==
    [][/\ AcceptedStep("timeout_claim") =>
            /\ global.status = STATUS_ACTIVE
            /\ last'.sender \in Players
            /\ now > global.last_move + ABANDON_TIMEOUT
       /\ AcceptedStep("update_move") =>
            /\ global'.last_move = now
            /\ global'.status = STATUS_ACTIVE]_vars

\* update_move accepted at a time when the previous lastMoveAt already let a
\* timeout_claim through
C9_Witness ==
    /\ last.op = "update_move"
    /\ last.approved
    /\ now > last.move_before + ABANDON_TIMEOUT
    /\ global.last_move = now
    /\ global.status = STATUS_ACTIVE

\* C10: status only steps Waiting -> Active and Active -> Complete: never
\* backward, never Waiting -> Complete, and Complete is kept for ever.
C10_StatusSteps ==
    [][\/ global'.status = global.status
       \/ global.status = STATUS_WAITING /\ global'.status = STATUS_ACTIVE
       \/ global.status = STATUS_ACTIVE /\ global'.status = STATUS_COMPLETE]_vars

C10_Witness ==
    /\ global.status = STATUS_COMPLETE
    /\ last.op = "join"
    /\ ~last.approved
    /\ last.gtxn1.amount = global.wager
    /\ last.gtxn1.receiver = AppAddress
    /\ last.gtxn1.type_enum = "pay"

\* C11: in every state of an existing record, winner is set (not the zero
\* address) exactly when status = Complete.
C11_WinnerIffComplete ==
    appExists =>
        (global.winner # ZeroAddress <=> global.status = STATUS_COMPLETE)

C11_Witness ==
    /\ global.status = STATUS_COMPLETE
    /\ global.winner # ZeroAddress
    /\ last.op = "declare_winner"
    /\ last.approved

\* C12: whenever winner is set it is the identity stored in player1 or in
\* player2, a real player: never the zero address of the empty player2 slot
\* and never a third party.
C12_WinnerIsPlayer ==
    global.winner # ZeroAddress =>
        global.winner \in {global.player1, global.player2} \ {ZeroAddress}

C12_Witness ==
    /\ global.status = STATUS_COMPLETE
    /\ global.winner = global.player2
    /\ last.op = "timeout_claim"
    /\ last.approved

\* C13: every accepted operation was invoked by a caller authorized for it:
\* join by a caller other than player1 while player2 is none, deposit and
\* cancel by player1, declare_winner and update_move by the designated
\* reporter or the creator, claim by the identity stored in winner,
\* timeout_claim by player1 or player2; a call from anyone else is rejected
\* and changes nothing.
Authorized(c) ==
    CASE c.op = "join" ->
           c.sender # global.player1 /\ global.player2 = ZeroAddress
      [] c.op \in {"deposit", "cancel"} -> c.sender = global.player1
      [] c.op \in {"declare_winner", "update_move"} ->
           c.sender \in {GAME_SERVER, creator}
      [] c.op = "claim" -> c.sender = global.winner
      [] c.op = "timeout_claim" ->
           c.sender \in {global.player1, global.player2}
      [] OTHER -> TRUE

C14_PayoutAmounts ==
    [][now' = now =>
         IF last'.approved /\ last'.op \in {"claim", "timeout_claim"}
         THEN inner' = Append(inner, [op |-> last'.op,
                                      receiver |-> last'.sender,
                                      amount |-> 2 * global.wager - 1000])
         ELSE IF last'.approved /\ last'.op = "cancel"
         THEN inner' = Append(inner, [op |-> "cancel",
                                      receiver |-> global.player1,
                                      amount |-> global.wager - 1000])
         ELSE inner' = inner]_vars

\* wager 1500: a cancel that paid 500 and a pot of 2000 paid by timeout_claim
C14_Witness ==
    /\ global.wager = 1500
    /\ Len(inner) = 2
    /\ inner[1] = [op |-> "cancel", receiver |-> global.player1, amount |-> 500]
    /\ inner[2] = [op |-> "timeout_claim", receiver |-> global.player2,
                   amount |-> 2000]

\* C15: every existing record has wager > 0 (a create whose wager argument
\* decodes to 0 is rejected).
C15_WagerPositive == appExists => global.wager > 0

\* C16: the fee reserve is strictly less than the amount it is deducted from
\* in every accepted payout: whether a wager that does not exceed the reserve
\* is turned away at create or at payout time, no claim or timeout_claim is
\* accepted when 2*wager <= 1000 and no cancel when wager <= 1000, so every
\* emitted outbound transfer has a strictly positive amount.
C16_ReserveBelowAmount ==
    \A i \in DOMAIN inner :
        /\ inner[i].amount > 0
        /\ inner[i].op \in {"claim", "timeout_claim"} => 2 * global.wager > 1000
        /\ inner[i].op = "cancel" => global.wager > 1000

\* C17: winner is set exactly once: once it holds a player's identity no
\* later operation by any caller changes it.
C17_WinnerSetOnce ==
    [][global.winner # ZeroAddress => global'.winner = global.winner]_vars

\* a further declare_winner by the reporter or the creator, naming the other
\* player, on a record whose winner is set
C17_Witness ==
    /\ global.winner # ZeroAddress
    /\ last.op = "declare_winner"
    /\ last.sender \in {GAME_SERVER, creator}
    /\ last.arg \in Players
    /\ last.arg # global.winner
    /\ ~last.approved

\* C18: after create no operation changes player1, wager, gameId or
\* createdAt; player2 changes only in an accepted join; lastMoveAt changes
\* only in an accepted join or update_move; an accepted deposit changes no
\* field of the record.
C18_Frame ==
    [][appExists =>
         /\ global'.player1 = global.player1
         /\ global'.wager = global.wager
         /\ global'.game_id = global.game_id
         /\ global'.created_at = global.created_at
         /\ global'.player2 # global.player2 => AcceptedStep("join")
         /\ global'.last_move # global.last_move =>
               (AcceptedStep("join") \/ AcceptedStep("update_move"))
         /\ AcceptedStep("deposit") => global' = global]_vars

\* a deposit accepted on an Active record some time after the last move
C18_Witness ==
    /\ last.op = "deposit"
    /\ last.approved
    /\ global.status = STATUS_ACTIVE
    /\ now > global.last_move

RECURSIVE SumOf(_)
SumOf(s) == IF s = <<>> THEN 0 ELSE Head(s).amount + SumOf(Tail(s))

\* C19: the outbound transfers emitted so far never add up to more than the
\* inbound payments accepted so far by deposit and join, and the pot of
\* 2*wager - 1000 is never paid out on a record for which player1's wager was
\* never deposited.
C19_CustodySolvency ==
    /\ SumOf(inner) <= received.deposit + received.join
    /\ \A i \in DOMAIN inner :
         inner[i].op \in {"claim", "timeout_claim"} =>
             received.deposit >= global.wager /\ received.deposit > 0

\* C20: no permanent lock: a cancel by player1 on a Waiting record after
\* createdAt + 3600 is accepted, and a timeout_claim by player1 or by player2
\* on an Active record after lastMoveAt + 259200 is accepted.
C20_NoPermanentLock ==
    [][(now' = now /\ appExists) =>
         /\ (/\ last'.op = "cancel"
             /\ last'.sender = global.player1
             /\ global.status = STATUS_WAITING
             /\ now > global.created_at + 3600) => last'.approved
         /\ (/\ last'.op = "timeout_claim"
             /\ last'.sender \in Players
             /\ global.status = STATUS_ACTIVE
             /\ now > global.last_move + 259200) => last'.approved]_vars
====
